---- MODULE Spec2Model ----
(***************************************************************************)
(* The Informo crawler: main() spawns one Crawler per configured website,  *)
(* each Crawler.Run() starts launchCrawler in a goroutine and watches the  *)
(* unbuffered channels errChan and endChan; launchCrawler drives the       *)
(* gocrawl engine, which calls back into the Extender (Filter, Visit,      *)
(* Error).  The engine is the gocrawl library: it is modelled by its       *)
(* contract for a single host (one worker, pages handled one at a time,    *)
(* a URL marked visited when it is enqueued, Options.MaxVisits counted on  *)
(* pages handed to Visit).                                                 *)
(***************************************************************************)
EXTENDS Integers, Sequences, FiniteSets, TLC

\* ------------------------------------------------------------------ bounds
NPages == 3
MaxVisitsCfg == 2
MaxMatches == 2
MaxBadLinks == 1
MaxGoodLinks == 1
MaxCrawlDelay == 1
MaxLayout == 3

\* ------------------------------------------------------------- configuration
\* The identifiers a website of the configuration file can have.
Sites == {"s1", "s2"}
\* The pages of one website; page 1 is the website's StartPoint.
URLs == 1..NPages
StartPoint == 1

\* time.Second, in nanoseconds (the unit of a time.Duration).
Second == 1000000000

\* A filter of CrawlFilters is a compiled regular expression, taken here as
\* the set of the site's URLs it matches; NoPattern is a filter left out.
NoPattern == [set |-> FALSE, urls |-> {}]
Pattern(U) == [set |-> TRUE, urls |-> U]
Patterns == {NoPattern, Pattern({StartPoint, 2}), Pattern({2})}
Matches(pat, u) == pat.set /\ u \in pat.urls
NoFilters == [Restrict |-> NoPattern, Exclude |-> NoPattern]
AllFilters == [Restrict : Patterns, Exclude : Patterns]

\* The URL u without its query: URLs 2k and 2k+1 are one path with two
\* different queries, the StartPoint has no query.
StripQuery(u) == IF u = StartPoint THEN u ELSE 2 * (u \div 2)

\* The Website entries a configuration file can hold, with filters among F
\* and ignore_query among Q.
WebsiteCfgs(F, Q) == [MaxVisits : 0..MaxVisitsCfg, IgnoreQuery : Q, Filters : F]
NoWebsite == [MaxVisits |-> 0, IgnoreQuery |-> FALSE, Filters |-> NoFilters]

\* Go error values: an identity and the text Error() returns; Nil is the nil error.
Nil == [id |-> "nil", msg |-> ""]
ErrMaxVisits == [id |-> "ErrMaxVisits", msg |-> "the maximum number of visits is reached"]
ErrInterrupted == [id |-> "ErrInterrupted", msg |-> "interrupted"]
\* fmt.Errorf("Crawling failed: %v", err)
CrawlingFailed(err) == [id |-> "errorf", msg |-> "Crawling failed: " \o err.msg]

VARIABLES
    websites,    \* cfg.Websites: the identifiers, in the order of the configuration file
    website,     \* website[s]: the *config.Website of s
    crawlerCfg,  \* cfg.Crawler: the CrawlerConfig (CrawlDelay)
    web,         \* web[s]: the kind of site s crawls: "any" | "plain"
    mainPc,      \* main(): "start" | "panic" | "loop" | "exit"
    mainI,       \* main(): index of the next website of the spawn loop
    wg,          \* main(): the sync.WaitGroup's counter
    gPc,         \* the goroutine of main() for s: "none" | "run" | "select" | "returned" | "logged" | "done"
    stopReason,  \* the value Run() returned for s
    stopLog,     \* the level main() logged the stop of s at
    nLogged,     \* number of errors Run() logged for s with c.Log.Error
    failLogged,  \* whether Run() logged the "Crawling failed" error of s
    endCount,    \* number of values received on endChan of s
    lcPc,        \* launchCrawler of s: "none" | "engine" | "sendErr" | "sendEnd" | "sendLast" | "done"
    lcErr,       \* launchCrawler's local err
    engPc,       \* the engine of s: "none" | "start" | "loop" | "fetch" | "visit" | "ended"
    engErr,      \* what c.c.Run() returns
    opts,        \* the gocrawl.Options NewCrawler filled
    queue,       \* the engine's pending URLs
    visited,     \* the engine's visited map
    visits,      \* the engine's count of pages handed to Visit
    fetches,     \* number of fetches the engine issued
    cur,         \* the page the worker is on
    todo,        \* what is left of the current Visit / Error call
    db,          \* the articles table
    db0,         \* the articles table as main() opened it
    wait,        \* the worker's pending crawl delay: what is left of it
    elapsed,     \* time the worker waited since its last fetch completed
    inFlight,    \* number of fetches issued and not completed
    enqLog,      \* the URLs the engine enqueued, in order
    fetchLog,    \* the URLs the engine fetched, in order
    saveLog,     \* the URLs SaveArticle was called with, in order
    rediscovered,\* the kinds of known URLs Filter was called on for the last page: "pending", "fetched"
    unharvested, \* the kinds of visited pages that left a link neither queued nor visited
    arg,         \* the argument of a function called on its own
    out          \* what the call returned

vars == <<websites, website, web, mainPc, mainI, wg, gPc, stopReason, stopLog, nLogged, failLogged,
          endCount, lcPc, lcErr, engPc, engErr, opts, queue, visited, visits, fetches, cur,
          todo, db, crawlerCfg, db0, wait, elapsed, inFlight, enqLog, fetchLog, saveLog,
          rediscovered, unharvested, arg, out>>

mainVars == <<mainPc, mainI, wg>>
cfgVars == <<websites, website, web, opts, crawlerCfg, db0>>
goVars == <<gPc, stopReason, stopLog, nLogged, failLogged, endCount>>
lcVars == <<lcPc, lcErr>>
engVars == <<engPc, engErr, queue, visited, visits, fetches, cur, todo>>
timeVars == <<wait, elapsed, inFlight>>
logVars == <<enqLog, fetchLog, saveLog, rediscovered, unharvested>>
fnVars == <<arg, out>>

NoPage == [url |-> 0, visited |-> FALSE, dateOk |-> FALSE, article |-> FALSE]
NoReason == "<none>"

\* Whether u is an element of the sequence q.
InSeq(u, q) == \E i \in 1..Len(q) : q[i] = u

\* No function is being called on its own.
NoArg == "<none>"
NoOut == [done |-> FALSE, article |-> FALSE, steps |-> <<>>, rewritten |-> 0]
NoCall == arg = NoArg /\ out = NoOut

\* -------------------------------------------------------------- the web
\* The pages a fetch can return: the number of nodes each required selector
\* matches, the number of a/img URLs of the content that url.Parse rejects,
\* the number of those url.Parse accepts, whether contentNodes.Html() and
\* time.Parse succeed.
Pages ==
    [content : 0..MaxMatches, title : 0..MaxMatches, date : 0..MaxMatches,
     badLinks : 0..MaxBadLinks, goodLinks : 0..MaxGoodLinks, htmlOk : BOOLEAN,
     dateOk : BOOLEAN]

\* The sets of same-site links a page of a site can hold: any, or ("plain")
\* links to every page of the site.
WebLinks(kind) == IF kind = "plain" THEN {URLs} ELSE SUBSET URLs

\* The row of the articles table for an article of website w at url.
Row(w, url, dateOk) == [website |-> w, url |-> <<w, url>>, dateOk |-> dateOk]

\* ------------------------------------------------------------------- Init
\* The state with main() at pc: the configuration ws (the websites), and the
\* database, which holds what earlier runs saved.
InitAt(pc, ws, wb, W, D) ==
    /\ websites = ws
    /\ web = wb
    /\ website \in {w \in [Sites -> W \cup {NoWebsite}] :
                      \A s \in Sites : (\A i \in 1..Len(ws) : ws[i] # s) => w[s] = NoWebsite}
    /\ crawlerCfg \in [CrawlDelay : D]
    /\ mainPc = pc
    /\ mainI = 1
    /\ wg = 0
    /\ gPc = [s \in Sites |-> "none"]
    /\ stopReason = [s \in Sites |-> NoReason]
    /\ stopLog = [s \in Sites |-> "none"]
    /\ nLogged = [s \in Sites |-> 0]
    /\ failLogged = [s \in Sites |-> FALSE]
    /\ endCount = [s \in Sites |-> 0]
    /\ lcPc = [s \in Sites |-> "none"]
    /\ lcErr = [s \in Sites |-> Nil]
    /\ engPc = [s \in Sites |-> "none"]
    /\ engErr = [s \in Sites |-> Nil]
    /\ opts = [s \in Sites |-> [MaxVisits |-> 0, CrawlDelay |-> 0]]
    /\ queue = [s \in Sites |-> <<>>]
    /\ visited = [s \in Sites |-> {}]
    /\ visits = [s \in Sites |-> 0]
    /\ fetches = [s \in Sites |-> 0]
    /\ cur = [s \in Sites |-> NoPage]
    /\ todo = [s \in Sites |-> <<>>]
    /\ db \in {{}, {Row(ws[1], StartPoint, TRUE)}}
    /\ db0 = db
    /\ wait = [s \in Sites |-> 0]
    /\ elapsed = [s \in Sites |-> 0]
    /\ inFlight = [s \in Sites |-> 0]
    /\ enqLog = [s \in Sites |-> <<>>]
    /\ fetchLog = [s \in Sites |-> <<>>]
    /\ saveLog = [s \in Sites |-> <<>>]
    /\ rediscovered = [s \in Sites |-> {}]
    /\ unharvested = [s \in Sites |-> {}]

\* main() has loaded the configuration and is at its spawn loop.
InitCfg(ws, wb, W, D) == InitAt("loop", ws, wb, W, D)

\* The configuration's websites have no filters and keep the query of URLs,
\* and no crawl delay is configured.
InitWith(ws, wb) == InitCfg(ws, wb, WebsiteCfgs({NoFilters}, {FALSE}), {0}) /\ NoCall

\* One website is configured.
Init == InitWith(<<"s1">>, [s \in Sites |-> "any"])

\* Two websites are configured.
InitSites == InitWith(<<"s1", "s2">>, [s \in Sites |-> "plain"])

\* One website is configured, with any filters and ignore_query setting.
InitFilters ==
    InitCfg(<<"s1">>, [s \in Sites |-> "plain"], WebsiteCfgs(AllFilters, BOOLEAN), {0}) /\ NoCall

\* One website is configured, with any crawl delay.
InitDelay ==
    InitCfg(<<"s1">>, [s \in Sites |-> "plain"], WebsiteCfgs({NoFilters}, {FALSE}),
            0..MaxCrawlDelay) /\ NoCall

\* Extender.Visit is about to be called on a page.
InitVisit ==
    /\ InitCfg(<<"s1">>, [s \in Sites |-> "any"], WebsiteCfgs({NoFilters}, {FALSE}), {0})
    /\ arg \in Pages
    /\ out = NoOut

\* ------------------------------------------------------------- NewCrawler
\* NewCrawler, were it to leave Options.MaxVisits unset.
NewCrawlerOptions_NoBudget(c, w) == [MaxVisits |-> 0, CrawlDelay |-> c.CrawlDelay * Second]

\* NewCrawler, were it to set Options.MaxVisits one too high.
NewCrawlerOptions_OffByOne(c, w) ==
    [MaxVisits |-> w.MaxVisits + 1, CrawlDelay |-> c.CrawlDelay * Second]

\* NewCrawler, were it to leave Options.CrawlDelay unset.
NewCrawlerOptions_NoDelay(c, w) == [MaxVisits |-> w.MaxVisits, CrawlDelay |-> 0]

\* The options NewCrawler fills from the crawler's and the website's
\* configuration.
NewCrawlerOptions(c, w) ==
    [MaxVisits |-> w.MaxVisits, CrawlDelay |-> c.CrawlDelay * Second]

\* The channels NewCrawler makes for the crawler of s and hands to its Extender.
ErrChan(s) == <<"errChan", s>>

\* NewCrawler, were endChan one channel shared by all the crawlers.
EndChan_Shared(s) == <<"endChan">>

EndChan(s) == <<"endChan", s>>

\* ------------------------------------------------------------ config.Load
\* Strings a start_point can hold, and what url.Parse gives for each: an error
\* (the scheme is missing before the colon) or a URL with its scheme, which
\* is empty for a relative reference.
StartPointStrings ==
    {"https://example.org/", "http://example.org/news", "ftp://example.org/", "/news", ":news"}
UrlParse(str) ==
    CASE str = "https://example.org/" -> [err |-> FALSE, scheme |-> "https"]
      [] str = "http://example.org/news" -> [err |-> FALSE, scheme |-> "http"]
      [] str = "ftp://example.org/" -> [err |-> FALSE, scheme |-> "ftp"]
      [] str = "/news" -> [err |-> FALSE, scheme |-> ""]
      [] OTHER -> [err |-> TRUE, scheme |-> ""]

\* The driver names a configuration file can hold.
Drivers == {"postgres", "sqlite3", "mysql"}

\* The content of a configuration file: the start_point of each website and
\* the database driver.
ConfigFiles == [startPoints : {<<u>> : u \in StartPointStrings}, driver : Drivers]

\* Load: an error when url.Parse rejects the StartPoint of a website or the
\* database driver is neither postgres nor sqlite3.
Load(f) ==
    IF \E i \in 1..Len(f.startPoints) : UrlParse(f.startPoints[i]).err
    THEN [err |-> TRUE]
    ELSE IF f.driver # "postgres" /\ f.driver # "sqlite3" THEN [err |-> TRUE]
    ELSE [err |-> FALSE]

\* main(), were it to log the error of Load and go on.
AfterLoadPc_Continues(err) == "loop"

\* main() after config.Load: logrus.Panic on an error.
AfterLoadPc(err) == IF err THEN "panic" ELSE "loop"

\* main() is about to load the configuration file arg.
InitStartup ==
    /\ InitAt("start", <<"s1">>, [s \in Sites |-> "plain"], WebsiteCfgs({NoFilters}, {FALSE}), {0})
    /\ arg \in ConfigFiles
    /\ out = NoOut

\* main() calls config.Load.
MainLoad ==
    /\ mainPc = "start"
    /\ mainPc' = AfterLoadPc(Load(arg).err)
    /\ out' = [done |-> TRUE, err |-> Load(arg).err]
    /\ UNCHANGED <<cfgVars, db, arg, mainI, wg>>
    /\ UNCHANGED <<goVars, lcVars, engVars, timeVars, logVars>>

\* ------------------------------------------------------------ date layouts
\* A date layout is a string, held as the sequence of its characters.

\* The characters of the strings of the patterns map, and of a value a pattern
\* could be given.
Chars ==
    "DAY_LONG" :> <<"D", "A", "Y", "_", "L", "O", "N", "G">>
    @@ "DAY_SHORT" :> <<"D", "A", "Y", "_", "S", "H", "O", "R", "T">>
    @@ "DAY_NUM" :> <<"D", "A", "Y", "_", "N", "U", "M">>
    @@ "MONTH_LONG" :> <<"M", "O", "N", "T", "H", "_", "L", "O", "N", "G">>
    @@ "MONTH_SHORT" :> <<"M", "O", "N", "T", "H", "_", "S", "H", "O", "R", "T">>
    @@ "MONTH_NUM" :> <<"M", "O", "N", "T", "H", "_", "N", "U", "M">>
    @@ "YEAR_LONG" :> <<"Y", "E", "A", "R", "_", "L", "O", "N", "G">>
    @@ "YEAR_SHORT" :> <<"Y", "E", "A", "R", "_", "S", "H", "O", "R", "T">>
    @@ "HOURS" :> <<"H", "O", "U", "R", "S">>
    @@ "MINUTES" :> <<"M", "I", "N", "U", "T", "E", "S">>
    @@ "SECONDS" :> <<"S", "E", "C", "O", "N", "D", "S">>
    @@ "ZONE_OFFSET" :> <<"Z", "O", "N", "E", "_", "O", "F", "F", "S", "E", "T">>
    @@ "ZONE_ABBREV" :> <<"Z", "O", "N", "E", "_", "A", "B", "B", "R", "E", "V">>
    @@ "Monday" :> <<"M", "o", "n", "d", "a", "y">>
    @@ "Mon" :> <<"M", "o", "n">>
    @@ "2" :> <<"2">>
    @@ "January" :> <<"J", "a", "n", "u", "a", "r", "y">>
    @@ "Jan" :> <<"J", "a", "n">>
    @@ "1" :> <<"1">>
    @@ "2006" :> <<"2", "0", "0", "6">>
    @@ "06" :> <<"0", "6">>
    @@ "15" :> <<"1", "5">>
    @@ "04" :> <<"0", "4">>
    @@ "05" :> <<"0", "5">>
    @@ "-0700" :> <<"-", "0", "7", "0", "0">>
    @@ "MST" :> <<"M", "S", "T">>
    @@ "{DAY_NUM}" :> <<"{", "D", "A", "Y", "_", "N", "U", "M", "}">>

\* The values the README gives for the placeholders of a date format.
LayoutTokens ==
    [DAY_LONG |-> "Monday", DAY_SHORT |-> "Mon", DAY_NUM |-> "2",
     MONTH_LONG |-> "January", MONTH_SHORT |-> "Jan", MONTH_NUM |-> "1",
     YEAR_LONG |-> "2006", YEAR_SHORT |-> "06",
     HOURS |-> "15", MINUTES |-> "04", SECONDS |-> "05",
     ZONE_OFFSET |-> "-0700", ZONE_ABBREV |-> "MST"]

\* The patterns, were the day and the month numbers in the order of a date
\* written day first.
patterns_DayFirst ==
    [DAY_LONG |-> "Monday", DAY_SHORT |-> "Mon", DAY_NUM |-> "1",
     MONTH_LONG |-> "January", MONTH_SHORT |-> "Jan", MONTH_NUM |-> "2",
     YEAR_LONG |-> "2006", YEAR_SHORT |-> "06",
     HOURS |-> "15", MINUTES |-> "04", SECONDS |-> "05",
     ZONE_OFFSET |-> "-0700", ZONE_ABBREV |-> "MST"]

\* The patterns, were the short day an alias of the day's number.
patterns_Alias ==
    [DAY_LONG |-> "Monday", DAY_SHORT |-> "{DAY_NUM}", DAY_NUM |-> "2",
     MONTH_LONG |-> "January", MONTH_SHORT |-> "Jan", MONTH_NUM |-> "1",
     YEAR_LONG |-> "2006", YEAR_SHORT |-> "06",
     HOURS |-> "15", MINUTES |-> "04", SECONDS |-> "05",
     ZONE_OFFSET |-> "-0700", ZONE_ABBREV |-> "MST"]

\* The known patterns: the name of each, without the curly brackets, and the
\* value that replaces it.
patterns ==
    [DAY_LONG |-> "Monday", DAY_SHORT |-> "Mon", DAY_NUM |-> "2",
     MONTH_LONG |-> "January", MONTH_SHORT |-> "Jan", MONTH_NUM |-> "1",
     YEAR_LONG |-> "2006", YEAR_SHORT |-> "06",
     HOURS |-> "15", MINUTES |-> "04", SECONDS |-> "05",
     ZONE_OFFSET |-> "-0700", ZONE_ABBREV |-> "MST"]

\* fmt.Sprintf("{%s}", pattern)
Braced(pattern) == <<"{">> \o Chars[pattern] \o <<"}">>

\* strings.Replace, were old looked for without its first and last character
\* (the curly brackets).
RECURSIVE StringsReplace_NoBraces(_, _, _)
StringsReplace_NoBraces(s, old, new) ==
    LET name == SubSeq(old, 2, Len(old) - 1) IN
    IF Len(s) < Len(name) THEN s
    ELSE IF SubSeq(s, 1, Len(name)) = name
         THEN new \o StringsReplace_NoBraces(SubSeq(s, Len(name) + 1, Len(s)), old, new)
         ELSE <<Head(s)>> \o StringsReplace_NoBraces(Tail(s), old, new)

\* strings.Replace with n = 1: the first occurrence only.
RECURSIVE StringsReplace_First(_, _, _)
StringsReplace_First(s, old, new) ==
    IF Len(s) < Len(old) THEN s
    ELSE IF SubSeq(s, 1, Len(old)) = old
         THEN new \o SubSeq(s, Len(old) + 1, Len(s))
         ELSE <<Head(s)>> \o StringsReplace_First(Tail(s), old, new)

\* strings.Replace(s, old, new, -1): every occurrence of old in s, found from
\* left to right without overlap, replaced with new.
RECURSIVE StringsReplace(_, _, _)
StringsReplace(s, old, new) ==
    IF Len(s) < Len(old) THEN s
    ELSE IF SubSeq(s, 1, Len(old)) = old
         THEN new \o StringsReplace(SubSeq(s, Len(old) + 1, Len(s)), old, new)
         ELSE <<Head(s)>> \o StringsReplace(Tail(s), old, new)

\* The examples of the README.
ExampleDayMonthYear ==
    Braced("DAY_NUM") \o <<" ">> \o Braced("MONTH_LONG") \o <<" ">> \o Braced("YEAR_LONG")
ExampleSlashes ==
    Braced("MONTH_NUM") \o <<"/">> \o Braced("DAY_NUM") \o <<"/">> \o Braced("YEAR_LONG")
ExampleWithTime ==
    Braced("DAY_LONG") \o <<" ">> \o Braced("DAY_NUM") \o <<" ">> \o Braced("MONTH_LONG")
        \o <<" ", "a", "t", " ">> \o Braced("HOURS") \o <<":">> \o Braced("MINUTES")

\* The pieces the other layouts are made of: curly brackets, a pattern between
\* its brackets, the beginning and the end of one, a name without brackets,
\* a name in lower case and a separator.
LayoutPieces ==
    {<<"{">>, <<"}">>, Braced("DAY_NUM"),
     <<"{", "M", "O", "N", "T", "H", "_">>, <<"N", "U", "M", "}">>,
     Chars["DAY_NUM"], <<"d", "a", "y", "_", "n", "u", "m">>, <<"/">>}

RECURSIVE Concat(_)
Concat(pieces) == IF pieces = <<>> THEN <<>> ELSE Head(pieces) \o Concat(Tail(pieces))

\* The layouts replaceLayoutPatterns is called with here: each pattern alone
\* between its brackets, the README's examples, and every string made of at
\* most MaxLayout pieces.
Layouts ==
    {Braced(n) : n \in DOMAIN patterns}
        \cup {ExampleDayMonthYear, ExampleSlashes, ExampleWithTime}
        \cup UNION {{Concat(q) : q \in [1..k -> LayoutPieces]} : k \in 0..MaxLayout}

\* The characters of a string.
CharsOf(str) == {str[i] : i \in 1..Len(str)}

\* The patterns whose names are made of characters of the layout or of the
\* values: the name of any other pattern is in the layout at no point of the
\* loop of replaceLayoutPatterns, and its iteration replaces nothing.
CanOccur(layout) ==
    LET avail == CharsOf(layout) \cup UNION {CharsOf(Chars[patterns[n]]) : n \in DOMAIN patterns}
    IN {n \in DOMAIN patterns : CharsOf(Chars[n]) \subseteq avail}

\* replaceLayoutPatterns is about to be called on the layout arg.
InitLayout ==
    /\ InitCfg(<<"s1">>, [s \in Sites |-> "any"], {NoWebsite}, {0})
    /\ db = {}
    /\ arg \in Layouts
    /\ out = [done |-> FALSE, layout |-> arg, left |-> CanOccur(arg)]

\* One iteration of the loop of replaceLayoutPatterns, on any of the patterns
\* the range over the map has not given yet; the function returns after the
\* last.
ReplaceStep ==
    /\ ~out.done
    /\ out.left # {}
    /\ \E pattern \in out.left :
        out' = [done |-> FALSE,
                layout |-> StringsReplace(out.layout, Braced(pattern), Chars[patterns[pattern]]),
                left |-> out.left \ {pattern}]
    /\ UNCHANGED <<cfgVars, arg, db>>
    /\ UNCHANGED <<mainVars, goVars, lcVars, engVars, timeVars, logVars>>

ReplaceReturn ==
    /\ ~out.done
    /\ out.left = {}
    /\ out' = [out EXCEPT !.done = TRUE]
    /\ UNCHANGED <<cfgVars, arg, db>>
    /\ UNCHANGED <<mainVars, goVars, lcVars, engVars, timeVars, logVars>>

replaceLayoutPatterns == ReplaceStep \/ ReplaceReturn

\* ------------------------------------------------------------------ main()
\* One iteration of the spawn loop: NewCrawler, wg.Add(1), go func(c).
MainSpawn ==
    /\ mainPc = "loop"
    /\ mainI <= Len(websites)
    /\ LET s == websites[mainI] IN
        /\ opts' = [opts EXCEPT ![s] = NewCrawlerOptions(crawlerCfg, website[s])]
        /\ gPc' = [gPc EXCEPT ![s] = "run"]
    /\ wg' = wg + 1
    /\ mainI' = mainI + 1
    /\ UNCHANGED <<websites, website, web, crawlerCfg, db0, mainPc, stopReason, stopLog, nLogged,
                   failLogged, endCount, db>>
    /\ UNCHANGED <<lcVars, engVars, timeVars, logVars>>
    /\ UNCHANGED fnVars

\* wg.Wait(), were it to return with one goroutine still counted.
WaitReturns_Early(counter) == counter <= 1

\* wg.Wait() returns when the counter is zero; main() then returns.
WaitReturns(counter) == counter = 0

MainWait ==
    /\ mainPc = "loop"
    /\ mainI > Len(websites)
    /\ WaitReturns(wg)
    /\ mainPc' = "exit"
    /\ UNCHANGED <<cfgVars, mainI, wg, db>>
    /\ UNCHANGED <<goVars, lcVars, engVars, timeVars, logVars>>
    /\ UNCHANGED fnVars

\* The level main() logs a crawler's stop at.
StopLevel(reason) == IF reason # "" THEN "info" ELSE "warn"

\* The goroutine of main(), after c.Run() returned: log the stop.
GoLog(s) ==
    /\ gPc[s] = "returned"
    /\ stopLog' = [stopLog EXCEPT ![s] = StopLevel(stopReason[s])]
    /\ gPc' = [gPc EXCEPT ![s] = "logged"]
    /\ UNCHANGED <<cfgVars, db, stopReason, nLogged, failLogged, endCount>>
    /\ UNCHANGED <<mainVars, lcVars, engVars, timeVars, logVars>>
    /\ UNCHANGED fnVars

\* The goroutine of main(): wg.Done().
GoDone(s) ==
    /\ gPc[s] = "logged"
    /\ wg' = wg - 1
    /\ gPc' = [gPc EXCEPT ![s] = "done"]
    /\ UNCHANGED <<cfgVars, db, mainPc, mainI, stopReason, stopLog, nLogged, failLogged, endCount>>
    /\ UNCHANGED <<lcVars, engVars, timeVars, logVars>>
    /\ UNCHANGED fnVars

\* ------------------------------------------------------------ Crawler.Run
\* Run(): go c.launchCrawler(), then enter the select loop.
RunStart(s) ==
    /\ gPc[s] = "run"
    /\ gPc' = [gPc EXCEPT ![s] = "select"]
    /\ lcPc' = [lcPc EXCEPT ![s] = "engine"]
    /\ engPc' = [engPc EXCEPT ![s] = "start"]
    /\ UNCHANGED <<cfgVars, db, lcErr, stopReason, stopLog, nLogged, failLogged, endCount>>
    /\ UNCHANGED <<mainVars, engErr, queue, visited, visits, fetches, cur, todo, timeVars, logVars>>
    /\ UNCHANGED fnVars

\* Run(), were it to return on an error received on errChan.
RunOnErr_Returns == "returned"

\* Run(), were it to keep looping after a value received on endChan.
RunOnEnd_Loops == "select"

\* Where Run() is after the case err = <-c.errChan of its select.
RunOnErr == "select"
\* Where Run() is after the case stopReason = <-c.endChan of its select.
RunOnEnd == "returned"

\* -------------------------------------------------- Crawler.launchCrawler
\* launchCrawler, were it to wrap ErrMaxVisits as a failure too.
LaunchCrawlerErr_WrapsAll(err) == IF err # Nil THEN CrawlingFailed(err) ELSE err

\* err after the first if statement of launchCrawler.
LaunchCrawlerErr(err) ==
    IF err # Nil /\ err # ErrMaxVisits THEN CrawlingFailed(err) ELSE err

\* launchCrawler, were it to send the error's message for ErrMaxVisits only.
AfterErrPc_OnlyMax(err) == IF err = ErrMaxVisits THEN "sendEnd" ELSE "sendLast"

\* The second if statement of launchCrawler: the send it does next.
AfterErrPc(err) == IF err # Nil THEN "sendEnd" ELSE "sendLast"

\* launchCrawler, were it not to send the failure on errChan.
AfterRunPc_NoErrSend(err) == AfterErrPc(LaunchCrawlerErr(err))

\* The first if statement of launchCrawler: the send it does next.
AfterRunPc(err) ==
    IF err # Nil /\ err # ErrMaxVisits THEN "sendErr" ELSE AfterErrPc(LaunchCrawlerErr(err))

\* launchCrawler, were its last send to carry a reason.
EndValue_Reason(pc, err) == IF pc = "sendEnd" THEN err.msg ELSE "Crawler stopped"

\* The value of the send on endChan launchCrawler is at.
EndValue(pc, err) == IF pc = "sendEnd" THEN err.msg ELSE ""

\* Where launchCrawler is after a send on endChan completed.
AfterEndPc(pc) == IF pc = "sendEnd" THEN "sendLast" ELSE "done"

\* c.c.Run(StartPoint) returned to launchCrawler.
LaunchCrawlerRunReturns(s) ==
    /\ lcPc[s] = "engine"
    /\ engPc[s] = "ended"
    /\ lcErr' = [lcErr EXCEPT ![s] = LaunchCrawlerErr(engErr[s])]
    /\ lcPc' = [lcPc EXCEPT ![s] = AfterRunPc(engErr[s])]
    /\ UNCHANGED <<cfgVars, db>>
    /\ UNCHANGED <<mainVars, goVars, engVars, timeVars, logVars>>
    /\ UNCHANGED fnVars

\* c.errChan <- err of the launchCrawler of t meets case err = <-c.errChan of
\* the Run() of s: Run() logs the error.
RunRecvCrawlFailed(s, t) ==
    /\ gPc[s] = "select"
    /\ lcPc[t] = "sendErr"
    /\ ErrChan(t) = ErrChan(s)
    /\ nLogged' = [nLogged EXCEPT ![s] = @ + 1]
    /\ failLogged' = [failLogged EXCEPT ![s] = TRUE]
    /\ gPc' = [gPc EXCEPT ![s] = RunOnErr]
    /\ lcPc' = [lcPc EXCEPT ![t] = AfterErrPc(lcErr[t])]
    /\ UNCHANGED <<cfgVars, db, lcErr, stopReason, stopLog, endCount>>
    /\ UNCHANGED <<mainVars, engVars, timeVars, logVars>>
    /\ UNCHANGED fnVars

\* A send on c.endChan of the launchCrawler of t meets case stopReason =
\* <-c.endChan of the Run() of s.
RunRecvEnd(s, t) ==
    /\ gPc[s] = "select"
    /\ lcPc[t] \in {"sendEnd", "sendLast"}
    /\ EndChan(t) = EndChan(s)
    /\ stopReason' = [stopReason EXCEPT ![s] = EndValue(lcPc[t], lcErr[t])]
    /\ endCount' = [endCount EXCEPT ![s] = @ + 1]
    /\ gPc' = [gPc EXCEPT ![s] = RunOnEnd]
    /\ lcPc' = [lcPc EXCEPT ![t] = AfterEndPc(lcPc[t])]
    /\ UNCHANGED <<cfgVars, db, lcErr, stopLog, nLogged, failLogged>>
    /\ UNCHANGED <<mainVars, engVars, timeVars, logVars>>
    /\ UNCHANGED fnVars

\* ------------------------------------------------------------ the Extender
\* Extender.Filter, were it to keep every URL.
Filter_All(isVisited) == TRUE

\* Extender.Filter: enqueue a URL unless the engine has it as visited.
Filter(isVisited) == ~isVisited

\* Extender.Visit, were it to take any non-zero number of content nodes.
IsArticle_AnyContent(p) == ~(p.content = 0 \/ p.title # 1 \/ p.date = 0)

\* Extender.Visit's test of the selectors' matches.
IsArticle(p) == ~(p.content # 1 \/ p.title # 1 \/ p.date = 0)

\* n times the step x.
Repeat(x, n) == [i \in 1..n |-> x]

\* Extender.Visit's two Map calls, were the first failure to end them.
RewriteLinks_StopsAtError(bad, good) ==
    [errors |-> IF bad > 0 THEN 1 ELSE 0, rewritten |-> IF bad > 0 THEN 0 ELSE good]

\* Extender.Visit's two Map calls over the a and img elements of the content,
\* bad of which hold a URL url.Parse rejects and good a URL it accepts: the
\* number of e.Error calls and of attributes urlRelativeToAbsolute rewrote.
RewriteLinks(bad, good) == [errors |-> bad, rewritten |-> good]

\* What Extender.Visit does on page p, in order: a send on errChan per e.Error
\* call, then the call of SaveArticle.
VisitSteps(p) ==
    IF ~IsArticle(p) THEN <<>>
    ELSE Repeat("errRel", RewriteLinks(p.badLinks, p.goodLinks).errors)
         \o (IF p.htmlOk THEN <<>> ELSE <<"errHtml">>)
         \o (IF p.dateOk THEN <<>> ELSE <<"errDate">>)
         \o <<"save">>

ErrSteps == {"errFetch", "errRel", "errHtml", "errDate", "errSave"}

\* Extender.Error: the number of sends on errChan for a CrawlError (nil or not).
ErrorSends(isNil) == IF isNil THEN 0 ELSE 1

\* --------------------------------------------------- the author of a post
\* An html.Node as Visit reads it: its Type, its Data (the text of a text
\* node, the tag of an element node) and its FirstChild; NoNode is nil.
NoNode == [type |-> "none", data |-> <<>>]
AuthorTexts == {<<"a">>, <<"B", "o", "b">>, <<" ", "B", "o", "b", "\n">>}
AuthorTags == {<<"a">>, <<"s", "p", "a", "n">>}
ChildNodes ==
    {NoNode} \cup {[type |-> "text", data |-> t] : t \in AuthorTexts}
             \cup {[type |-> "element", data |-> <<"b">>]}
FirstChildNodes ==
    {[type |-> "none", data |-> <<>>, child |-> NoNode]}
        \cup {[type |-> "text", data |-> t, child |-> NoNode] : t \in AuthorTexts}
        \cup {[type |-> "element", data |-> t, child |-> c] : t \in AuthorTags, c \in ChildNodes}

\* What Visit looks for the author in: whether Selectors.Author is set, the
\* number of nodes it matches and the FirstChild of the first of them.
AuthorArgs == [selector : BOOLEAN, matches : 0..MaxMatches, first : FirstChildNodes]

\* strings.Trim(str, " \t\n")
Cutset == {" ", "\t", "\n"}
RECURSIVE TrimLeft(_)
TrimLeft(str) ==
    IF str # <<>> /\ Head(str) \in Cutset THEN TrimLeft(Tail(str)) ELSE str
RECURSIVE TrimRight(_)
TrimRight(str) ==
    IF str # <<>> /\ str[Len(str)] \in Cutset
    THEN TrimRight(SubSeq(str, 1, Len(str) - 1)) ELSE str
Trim(str) == TrimRight(TrimLeft(str))

\* The author Visit comes to: a nil *string, or a string; panic when Visit
\* reads the Data of a nil node.
NoAuthor == [set |-> FALSE, value |-> <<>>]
Author(str) == [set |-> TRUE, value |-> str]
VisitAuthor(a) ==
    IF ~a.selector \/ a.matches = 0 THEN [panic |-> FALSE, author |-> NoAuthor]
    ELSE IF a.first.type = "none" THEN [panic |-> TRUE, author |-> NoAuthor]
    ELSE IF a.first.data = <<"a">>
         THEN IF a.first.child.type = "none" THEN [panic |-> TRUE, author |-> NoAuthor]
              ELSE [panic |-> FALSE, author |-> Author(Trim(a.first.child.data))]
         ELSE [panic |-> FALSE, author |-> Author(Trim(a.first.data))]

\* Visit is about to look for the author of the post.
InitAuthor ==
    /\ InitCfg(<<"s1">>, [s \in Sites |-> "any"], {NoWebsite}, {0})
    /\ db = {}
    /\ arg \in AuthorArgs
    /\ out = NoOut

\* Visit looks for the author of the post.
AuthorCall ==
    /\ ~out.done
    /\ out' = [done |-> TRUE, panic |-> VisitAuthor(arg).panic, author |-> VisitAuthor(arg).author]
    /\ UNCHANGED <<cfgVars, arg, db>>
    /\ UNCHANGED <<mainVars, goVars, lcVars, engVars, timeVars, logVars>>

\* ------------------------------------------------------------ the database
\* Database.SaveArticle, were it to insert whatever the scheme of the URL.
SaveArticle_AnyScheme(d, w, url, scheme, dateOk) ==
    IF \E r \in d : r.url = <<w, url>> THEN [db |-> d, err |-> TRUE]
    ELSE [db |-> d \cup {Row(w, url, dateOk)}, err |-> FALSE]

\* insertArticle, were it to replace the row of a URL the table already holds.
SaveArticle_Upsert(d, w, url, scheme, dateOk) ==
    IF scheme # "http" /\ scheme # "https" THEN [db |-> d, err |-> TRUE]
    ELSE [db |-> {r \in d : r.url # <<w, url>>} \cup {Row(w, url, dateOk)}, err |-> FALSE]

\* Database.SaveArticle and insertArticle: the table and whether an error is
\* returned (unsupported scheme, or url is already a primary key of the table).
SaveArticle(d, w, url, scheme, dateOk) ==
    IF scheme # "http" /\ scheme # "https" THEN [db |-> d, err |-> TRUE]
    ELSE IF \E r \in d : r.url = <<w, url>> THEN [db |-> d, err |-> TRUE]
    ELSE [db |-> d \cup {Row(w, url, dateOk)}, err |-> FALSE]

\* The scheme of the URL of a page the engine fetched.
Scheme(url) == "https"

\* The schemes a *url.URL handed to SaveArticle can have, and the calls of
\* SaveArticle on its own.
Schemes == {"http", "https", "ftp", ""}
SaveArgs == [website : {"s1"}, url : URLs, scheme : Schemes, dateOk : BOOLEAN]

\* Database.SaveArticle is about to be called.
InitSave ==
    /\ InitCfg(<<"s1">>, [s \in Sites |-> "any"], WebsiteCfgs({NoFilters}, {FALSE}), {0})
    /\ arg \in SaveArgs
    /\ out = NoOut

\* Database.SaveArticle called with arg.
SaveCall ==
    /\ ~out.done
    /\ LET r == SaveArticle(db, arg.website, arg.url, arg.scheme, arg.dateOk) IN
        /\ db' = r.db
        /\ out' = [done |-> TRUE, err |-> r.err]
    /\ UNCHANGED <<cfgVars, arg>>
    /\ UNCHANGED <<mainVars, goVars, lcVars, engVars, timeVars, logVars>>

\* ---------------------------------------------------------------- the web
\* A page with nothing in it for Visit to report.
WellFormed(p) == p.badLinks = 0 /\ p.goodLinks = 0 /\ p.htmlOk /\ p.dateOk

\* The pages a site serves: any page (the content of a page Visit returns
\* from at its test of the selectors is left out: Visit never reads it; so
\* are the links Visit rewrites without an error: nothing of a crawl depends
\* on them), or
\* ("plain") only well-formed articles.
WebPages(kind) ==
    IF kind = "plain"
    THEN {p \in Pages : WellFormed(p) /\ p.content = 1 /\ p.title = 1 /\ p.date = 1}
    ELSE {p \in Pages : p.goodLinks = 0 /\ (IsArticle(p) \/ WellFormed(p))}

\* -------------------------------------------------------------- the engine
\* The engine's enqueueUrls, were it to push each new URL in front of the
\* pending ones.
RECURSIVE EnqueueUrls_Lifo(_, _, _)
EnqueueUrls_Lifo(q, v, links) ==
    IF links = <<>> THEN [queue |-> q, visited |-> v]
    ELSE LET u == Head(links) IN
         IF Filter(u \in v)
         THEN EnqueueUrls_Lifo(<<u>> \o q, v \cup {u}, Tail(links))
         ELSE EnqueueUrls_Lifo(q, v, Tail(links))

\* The engine's enqueueUrls, were it to start its visited map anew on each call.
RECURSIVE EnqueueUrls_Forgets(_, _, _)
EnqueueUrls_Forgets(q, v, links) ==
    IF links = <<>> THEN [queue |-> q, visited |-> {}]
    ELSE LET u == Head(links) IN
         IF Filter(u \in v)
         THEN LET r == EnqueueUrls_Forgets(Append(q, u), v \cup {u}, Tail(links)) IN
              [queue |-> r.queue, visited |-> r.visited \cup {u}]
         ELSE EnqueueUrls_Forgets(q, v, Tail(links))

\* The engine's enqueueUrls: each link the Extender's Filter keeps is queued
\* and marked visited, in the order of links.
RECURSIVE EnqueueUrls(_, _, _)
EnqueueUrls(q, v, links) ==
    IF links = <<>> THEN [queue |-> q, visited |-> v]
    ELSE LET u == Head(links) IN
         IF Filter(u \in v)
         THEN EnqueueUrls(Append(q, u), v \cup {u}, Tail(links))
         ELSE EnqueueUrls(q, v, Tail(links))

\* The links of a set, in the order of the page (ascending).
RECURSIVE InOrder(_)
InOrder(L) ==
    IF L = {} THEN <<>>
    ELSE LET m == CHOOSE x \in L : \A y \in L : x <= y IN <<m>> \o InOrder(L \ {m})

\* The URLs of links the Extender's Filter keeps when the visited map is v,
\* in order.
RECURSIVE Kept(_, _)
Kept(v, links) ==
    IF links = <<>> THEN <<>>
    ELSE LET u == Head(links) IN
         IF Filter(u \in v) THEN <<u>> \o Kept(v \cup {u}, Tail(links))
         ELSE Kept(v, Tail(links))

\* The engine's test after a visit: has the visit budget been reached.
MaxVisitsReached(o, n) == o.MaxVisits > 0 /\ n >= o.MaxVisits

\* c.c.Run(StartPoint) starts: the seed is enqueued.
EngineStart(s) ==
    /\ engPc[s] = "start"
    /\ LET e == EnqueueUrls(<<>>, {}, <<StartPoint>>) IN
        /\ queue' = [queue EXCEPT ![s] = e.queue]
        /\ visited' = [visited EXCEPT ![s] = e.visited]
    /\ enqLog' = [enqLog EXCEPT ![s] = @ \o Kept({}, <<StartPoint>>)]
    /\ engPc' = [engPc EXCEPT ![s] = "loop"]
    /\ UNCHANGED <<cfgVars, db, engErr, visits, fetches, cur, todo>>
    /\ UNCHANGED <<mainVars, goVars, lcVars, timeVars, fetchLog, saveLog, rediscovered, unharvested>>
    /\ UNCHANGED fnVars

\* The worker's test before a fetch: is a crawl delay still pending.
DelayPending(w) == w > 0

\* The worker waits for its pending crawl delay: a second passes.
Tick(s) ==
    /\ engPc[s] = "loop"
    /\ queue[s] # <<>>
    /\ DelayPending(wait[s])
    /\ wait' = [wait EXCEPT ![s] = @ - Second]
    /\ elapsed' = [elapsed EXCEPT ![s] = @ + Second]
    /\ UNCHANGED <<cfgVars, db, engVars, inFlight>>
    /\ UNCHANGED <<mainVars, goVars, lcVars, logVars>>
    /\ UNCHANGED fnVars

\* The worker, no crawl delay pending, pops the next URL and requests it.
WorkerFetch(s) ==
    /\ engPc[s] = "loop"
    /\ queue[s] # <<>>
    /\ ~DelayPending(wait[s])
    /\ queue' = [queue EXCEPT ![s] = Tail(@)]
    /\ fetches' = [fetches EXCEPT ![s] = @ + 1]
    /\ inFlight' = [inFlight EXCEPT ![s] = @ + 1]
    /\ fetchLog' = [fetchLog EXCEPT ![s] = Append(@, Head(queue[s]))]
    /\ cur' = [cur EXCEPT ![s] = [NoPage EXCEPT !.url = Head(queue[s])]]
    /\ rediscovered' = [rediscovered EXCEPT ![s] = {}]
    /\ engPc' = [engPc EXCEPT ![s] = "fetch"]
    /\ UNCHANGED <<cfgVars, db, engErr, visited, visits, todo>>
    /\ UNCHANGED <<mainVars, goVars, lcVars, wait, elapsed, enqLog, saveLog, unharvested>>
    /\ UNCHANGED fnVars

\* Extender.Visit, were it to ask for the links of articles only.
VisitFindLinks_ArticlesOnly(article) == article

\* Extender.Visit's second result: whether the engine is to harvest the
\* page's links; both returns of Visit give true.
VisitFindLinks(article) == TRUE

\* The request completes and the crawl delay starts: the fetch failed (the
\* engine calls Extender.Error) or returned a page (the engine calls
\* Extender.Visit, which runs up to its first send on errChan or its call of
\* SaveArticle).
FetchDone(s) ==
    /\ engPc[s] = "fetch"
    /\ inFlight' = [inFlight EXCEPT ![s] = @ - 1]
    /\ wait' = [wait EXCEPT ![s] = opts[s].CrawlDelay]
    /\ elapsed' = [elapsed EXCEPT ![s] = 0]
    /\ engPc' = [engPc EXCEPT ![s] = "visit"]
    /\ \/ /\ UNCHANGED cur
          /\ todo' = [todo EXCEPT ![s] = Repeat("errFetch", ErrorSends(FALSE))]
       \/ \E p \in WebPages(web[s]) :
          /\ cur' = [cur EXCEPT ![s] = [url |-> cur[s].url, visited |-> TRUE, dateOk |-> p.dateOk,
                                        article |-> IsArticle(p)]]
          /\ todo' = [todo EXCEPT ![s] = VisitSteps(p)]
    /\ UNCHANGED <<cfgVars, db, engErr, queue, visited, visits, fetches>>
    /\ UNCHANGED <<mainVars, goVars, lcVars, logVars>>
    /\ UNCHANGED fnVars

\* e.errChan <- ... of Extender.Error, called for the crawl of t, meets case
\* err = <-c.errChan of the Run() of s: Run() logs the error.
RunRecvExtenderError(s, t) ==
    /\ gPc[s] = "select"
    /\ engPc[t] = "visit"
    /\ todo[t] # <<>>
    /\ Head(todo[t]) \in ErrSteps
    /\ ErrChan(t) = ErrChan(s)
    /\ nLogged' = [nLogged EXCEPT ![s] = @ + 1]
    /\ gPc' = [gPc EXCEPT ![s] = RunOnErr]
    /\ todo' = [todo EXCEPT ![t] = Tail(@)]
    /\ UNCHANGED <<cfgVars, db, stopReason, stopLog, failLogged, endCount>>
    /\ UNCHANGED <<mainVars, lcVars, engPc, engErr, queue, visited, visits, fetches, cur>>
    /\ UNCHANGED <<timeVars, logVars>>
    /\ UNCHANGED fnVars

\* Extender.Visit calls e.db.SaveArticle; an error is reported with e.Error.
VisitSave(s) ==
    /\ engPc[s] = "visit"
    /\ todo[s] # <<>>
    /\ Head(todo[s]) = "save"
    /\ LET r == SaveArticle(db, s, cur[s].url, Scheme(cur[s].url), cur[s].dateOk) IN
        /\ db' = r.db
        /\ todo' = [todo EXCEPT ![s] = Repeat("errSave", ErrorSends(~r.err))]
    /\ saveLog' = [saveLog EXCEPT ![s] = Append(@, cur[s].url)]
    /\ UNCHANGED cfgVars
    /\ UNCHANGED <<mainVars, goVars, lcVars, engPc, engErr, queue, visited, visits, fetches, cur>>
    /\ UNCHANGED <<timeVars, enqLog, fetchLog, rediscovered, unharvested>>
    /\ UNCHANGED fnVars

\* Visit (or the failed fetch) is over: the worker hands its response to the
\* engine, which counts the visit, stops with ErrMaxVisits when the budget is
\* reached and otherwise enqueues the links harvested from the page.
WorkerResponse(s) ==
    /\ engPc[s] = "visit"
    /\ todo[s] = <<>>
    /\ cur' = [cur EXCEPT ![s] = NoPage]
    /\ IF cur[s].visited
       THEN /\ visits' = [visits EXCEPT ![s] = @ + 1]
            /\ IF MaxVisitsReached(opts[s], visits[s] + 1)
               THEN /\ engPc' = [engPc EXCEPT ![s] = "ended"]
                    /\ engErr' = [engErr EXCEPT ![s] = ErrMaxVisits]
                    /\ UNCHANGED <<queue, visited, enqLog, rediscovered, unharvested>>
               ELSE /\ \E P \in WebLinks(web[s]) :
                        LET L == IF VisitFindLinks(cur[s].article) THEN P ELSE {}
                            e == EnqueueUrls(queue[s], visited[s], InOrder(L)) IN
                        /\ queue' = [queue EXCEPT ![s] = e.queue]
                        /\ visited' = [visited EXCEPT ![s] = e.visited]
                        /\ enqLog' = [enqLog EXCEPT ![s] = @ \o Kept(visited[s], InOrder(L))]
                        /\ rediscovered' = [rediscovered EXCEPT ![s] =
                               {k \in {"pending", "fetched"} :
                                         \E u \in L \cap visited[s] : (k = "pending") = InSeq(u, queue[s])}]
                        /\ unharvested' = [unharvested EXCEPT ![s] =
                               IF P \subseteq e.visited THEN @
                               ELSE @ \cup {IF cur[s].article THEN "article" ELSE "other"}]
                    /\ engPc' = [engPc EXCEPT ![s] = "loop"]
                    /\ UNCHANGED engErr
       ELSE /\ engPc' = [engPc EXCEPT ![s] = "loop"]
            /\ UNCHANGED <<visits, engErr, queue, visited, enqLog, rediscovered, unharvested>>
    /\ UNCHANGED <<cfgVars, db, fetches, todo>>
    /\ UNCHANGED <<mainVars, goVars, lcVars, timeVars, fetchLog, saveLog>>
    /\ UNCHANGED fnVars

\* Nothing is left to visit: c.c.Run returns nil.
EngineExhausted(s) ==
    /\ engPc[s] = "loop"
    /\ queue[s] = <<>>
    /\ engPc' = [engPc EXCEPT ![s] = "ended"]
    /\ engErr' = [engErr EXCEPT ![s] = Nil]
    /\ UNCHANGED <<cfgVars, db, queue, visited, visits, fetches, cur, todo>>
    /\ UNCHANGED <<mainVars, goVars, lcVars, timeVars, logVars>>
    /\ UNCHANGED fnVars

\* The engine stops with an error other than ErrMaxVisits.
EngineFails(s) ==
    /\ engPc[s] = "loop"
    /\ engPc' = [engPc EXCEPT ![s] = "ended"]
    /\ engErr' = [engErr EXCEPT ![s] = ErrInterrupted]
    /\ UNCHANGED <<cfgVars, db, queue, visited, visits, fetches, cur, todo>>
    /\ UNCHANGED <<mainVars, goVars, lcVars, timeVars, logVars>>
    /\ UNCHANGED fnVars

\* Extender.Visit called on the page arg: its test of the selectors and what
\* it then does.
VisitCall ==
    /\ arg \in Pages
    /\ ~out.done
    /\ out' = [done |-> TRUE, article |-> IsArticle(arg), steps |-> VisitSteps(arg),
               rewritten |-> IF IsArticle(arg)
                             THEN RewriteLinks(arg.badLinks, arg.goodLinks).rewritten ELSE 0]
    /\ UNCHANGED <<cfgVars, db, arg>>
    /\ UNCHANGED <<mainVars, goVars, lcVars, engVars, timeVars, logVars>>

\* ---------------------------------------------------------- specification
Next ==
    \/ MainSpawn
    \/ MainWait
    \/ \E s \in Sites :
        \/ RunStart(s)
        \/ \E t \in Sites : RunRecvCrawlFailed(s, t)
        \/ \E t \in Sites : RunRecvExtenderError(s, t)
        \/ \E t \in Sites : RunRecvEnd(s, t)
        \/ GoLog(s)
        \/ GoDone(s)
        \/ LaunchCrawlerRunReturns(s)
        \/ EngineStart(s)
        \/ WorkerFetch(s)
        \/ FetchDone(s)
        \/ VisitSave(s)
        \/ WorkerResponse(s)
        \/ EngineExhausted(s)
        \/ EngineFails(s)

Spec == Init /\ [][Next]_vars

SpecSites == InitSites /\ [][Next]_vars

\* One website with filters or ignore_query configured.
SpecFilters == InitFilters /\ [][Next]_vars

\* One website crawled with a crawl delay: the worker waits between fetches.
NextDelay == Next \/ \E s \in Sites : Tick(s)

SpecDelay == InitDelay /\ [][NextDelay]_vars

\* main() from its start: the configuration file is loaded first.
NextStartup == MainLoad \/ Next

SpecStartup == InitStartup /\ [][NextStartup]_vars

\* Extender.Visit on any page.
SpecVisit == InitVisit /\ [][VisitCall]_vars

\* Database.SaveArticle on any URL.
SpecSave == InitSave /\ [][SaveCall]_vars

\* Visit's search for the author, on any author element.
SpecAuthor == InitAuthor /\ [][AuthorCall]_vars

\* replaceLayoutPatterns on any layout.
SpecLayout == InitLayout /\ [][replaceLayoutPatterns]_vars

\* One website's crawl, with the Go scheduler running every goroutine that
\* can take a step and the engine going on while it can.
FairSpec == Spec /\ WF_vars(Next)

\* replaceLayoutPatterns runs its loop to the end: a loop over a map, with
\* nothing to wait for.
FairSpecLayout == SpecLayout /\ WF_vars(replaceLayoutPatterns)

\* The two websites' crawls, with the Go scheduler running every goroutine of
\* main() that can take a step.
FairSpecSites ==
    /\ SpecSites
    /\ WF_vars(MainSpawn)
    /\ WF_vars(MainWait)
    /\ \A s \in Sites : WF_vars(GoLog(s)) /\ WF_vars(GoDone(s))

\* ------------------------------------------------------------------ claims
Configured == {websites[i] : i \in 1..Len(websites)}
RunReturned(s) == gPc[s] \in {"returned", "logged", "done"}
EngineEnded(s) == engPc[s] = "ended"
Fatal(s) == EngineEnded(s) /\ engErr[s] # Nil /\ engErr[s] # ErrMaxVisits

\* C1: main() returns only after Run() has returned for every configured
\* website, and once Run() has returned for all of them main() does return.
C1_ExitAfterAllRuns ==
    /\ [](mainPc = "exit" => \A s \in Configured : RunReturned(s))
    /\ ((\A s \in Configured : RunReturned(s)) ~> (mainPc = "exit"))

C1_Witness ==
    /\ mainPc = "exit"
    /\ Len(websites) = 2
    /\ \A s \in Configured : gPc[s] = "done"

C3_MaxVisitsEmptyReason ==
    \A s \in Sites :
        (EngineEnded(s) /\ engErr[s] = ErrMaxVisits /\ RunReturned(s))
            => stopReason[s] = "" /\ ~failLogged[s]

\* C3 amended: when the engine stops with ErrMaxVisits, Run() returns the
\* message of ErrMaxVisits as the stop reason, and launchCrawler reports no
\* failure on the error channel.
C3_MaxVisitsReason ==
    \A s \in Sites :
        (EngineEnded(s) /\ engErr[s] = ErrMaxVisits)
            => /\ lcPc[s] # "sendErr"
               /\ ~failLogged[s]
               /\ RunReturned(s) => stopReason[s] = ErrMaxVisits.msg

C3_Witness ==
    \E s \in Sites :
        /\ website[s].MaxVisits > 0
        /\ engErr[s] = ErrMaxVisits
        /\ gPc[s] = "done"
        /\ stopReason[s] # ""

\* C4: when the engine returns without error (nothing is left to visit),
\* Run() returns the empty stop reason.
C4_ExhaustedEmptyReason ==
    \A s \in Sites :
        (EngineEnded(s) /\ engErr[s] = Nil /\ RunReturned(s)) => stopReason[s] = ""

C4_Witness ==
    \E s \in Sites :
        EngineEnded(s) /\ engErr[s] = Nil /\ queue[s] = <<>> /\ gPc[s] = "done"

\* C5: when the engine returns an error other than ErrMaxVisits, Run()
\* returns a non-empty stop reason that holds the error's message.
C5_FatalReason ==
    \A s \in Sites :
        (Fatal(s) /\ RunReturned(s))
            => /\ stopReason[s] # ""
               /\ stopReason[s] = "Crawling failed: " \o engErr[s].msg

C5_Witness ==
    \E s \in Sites : Fatal(s) /\ gPc[s] = "returned" /\ failLogged[s]

\* What belongs to the crawl of s: its goroutines, its stop reason, its
\* pending and visited URLs, and the articles saved for it.
SiteState(s) ==
    <<gPc[s], stopReason[s], stopLog[s], nLogged[s], endCount[s], lcPc[s], engPc[s],
      engErr[s], queue[s], visited[s], visits[s], {r \in db : r.website = s}>>

\* C6: a step of the abort of one crawl (the engine's fatal error, the sends
\* of launchCrawler, the return of Run()) changes nothing that belongs to
\* another crawl.
C6_AbortIsLocal ==
    [][\A t \in Sites :
          (Fatal(t)' /\ SiteState(t)' # SiteState(t))
              => \A s \in Sites \ {t} : SiteState(s)' = SiteState(s)]_vars

C6_Witness ==
    \E t \in Sites : \E s \in Sites \ {t} :
        /\ Fatal(t) /\ gPc[t] = "done"
        /\ stopReason[t] = "Crawling failed: interrupted"
        /\ gPc[s] = "done" /\ stopReason[s] = ""
        /\ visits[s] = NPages
        /\ \E r \in db : r.website = s

\* C7 as stated: a stop with the empty reason is logged at info level, a stop
\* with a reason at warning or error level.
C7_StopLevels ==
    \A s \in Sites :
        stopLog[s] # "none"
            => /\ stopReason[s] = "" => stopLog[s] = "info"
               /\ stopReason[s] # "" => stopLog[s] \in {"warn", "error"}

\* C8: the receipt of an error on errChan never makes Run() return, and after
\* an error of the Extender the visit it came from goes on.
C8_ErrorsDoNotStop ==
    [][\A s \in Sites :
          nLogged'[s] > nLogged[s]
              => /\ gPc'[s] = "select"
                 /\ stopReason'[s] = NoReason
                 /\ endCount'[s] = 0
                 /\ failLogged'[s] = failLogged[s]
                        => engPc'[s] = "visit" /\ engErr'[s] = engErr[s]]_vars

C8_Witness ==
    \E s \in Sites :
        /\ nLogged[s] >= 2
        /\ gPc[s] = "select"
        /\ engPc[s] = "visit"
        /\ fetches[s] >= 2
        /\ visits[s] >= 1

Elems(q) == {q[i] : i \in 1..Len(q)}
NoDup(q) == \A i, j \in 1..Len(q) : q[i] = q[j] => i = j

\* The frontier of s: the URLs fetched so far and the URLs waiting.
Fetched(s) == Elems(fetchLog[s])
Pending(s) == Elems(queue[s])

\* C11: in every reachable state no URL is both visited (fetched) and
\* pending, and no URL is pending twice, also when it is discovered again
\* before being dequeued.
C11_VisitedOrPending ==
    \A s \in Sites : Fetched(s) \cap Pending(s) = {} /\ NoDup(queue[s])

C11_Witness ==
    \E s \in Sites :
        /\ "pending" \in rediscovered[s]
        /\ queue[s] # <<>>
        /\ Len(fetchLog[s]) >= 2

\* C12: within one run every URL is fetched at most once, however many times
\* it is discovered.
C12_FetchedOnce == \A s \in Sites : NoDup(fetchLog[s])

C12_Witness ==
    \E s \in Sites :
        /\ "fetched" \in rediscovered[s]
        /\ Len(fetchLog[s]) = NPages
        /\ EngineEnded(s)

\* C13 as stated: a URL the articles table already held for the website when
\* the run started is neither fetched nor passed to SaveArticle in the run.
C13_PersistedNotRefetched ==
    \A s \in Sites : \A r \in db0 :
        r.website = s => ~InSeq(r.url[2], fetchLog[s]) /\ ~InSeq(r.url[2], saveLog[s])

\* C14 as stated: a discovered link is enqueued only if it matches the
\* restrict pattern when one is configured and does not match the exclude
\* pattern when one is configured.
C14_FilterPolicy ==
    \A s \in Sites : \A i \in 2..Len(enqLog[s]) :
        LET f == website[s].Filters
            u == enqLog[s][i] IN
        /\ f.Restrict.set => Matches(f.Restrict, u)
        /\ ~Matches(f.Exclude, u)

\* C15 as stated: with ignore_query enabled, two URLs that differ only in
\* their query are fetched at most once between them.
C15_IgnoreQuery ==
    \A s \in Sites :
        website[s].IgnoreQuery =>
            \A i, j \in 1..Len(fetchLog[s]) :
                StripQuery(fetchLog[s][i]) = StripQuery(fetchLog[s][j]) => i = j

\* C16: pages are fetched in the order they were enqueued: the URLs fetched
\* so far are the first URLs enqueued, in the same order, so a URL enqueued
\* before another is fetched before it.
C16_Fifo ==
    \A s \in Sites :
        /\ Len(fetchLog[s]) <= Len(enqLog[s])
        /\ \A i \in 1..Len(fetchLog[s]) : fetchLog[s][i] = enqLog[s][i]

C16_Witness ==
    \E s \in Sites : Len(fetchLog[s]) = NPages /\ fetchLog[s][2] = NPages

\* C17: no step removes a URL from the visited set: neither from the engine's
\* visited map nor from the URLs fetched so far.
C17_VisitedGrows ==
    [][\A s \in Sites : visited[s] \subseteq visited'[s] /\ Fetched(s) \subseteq Fetched(s)']_vars

C17_Witness ==
    \E s \in Sites : visited[s] = URLs /\ Fetched(s) = URLs /\ rediscovered[s] # {}

C19_Classification ==
    out.done => (out.article <=> (arg.title = 1 /\ arg.content = 1 /\ arg.date >= 1))

C19_Witness ==
    /\ out.done
    /\ ~out.article
    /\ arg.title = 1 /\ arg.content = MaxMatches /\ arg.date = 1

\* C20: for a page that is not an article Visit sends nothing on the error
\* channel and does not call SaveArticle, and the page's links are enqueued
\* all the same (each is queued or already visited afterwards).
C20_NotAnArticleSkipped ==
    \A s \in Sites :
        /\ (engPc[s] = "visit" /\ cur[s].visited /\ ~cur[s].article)
               => todo[s] = <<>> /\ ~InSeq(cur[s].url, saveLog[s])
        /\ "other" \notin unharvested[s]

C20_Witness ==
    \E s \in Sites :
        /\ Len(enqLog[s]) >= 2
        /\ Len(fetchLog[s]) >= 2
        /\ saveLog[s] = <<>>
        /\ nLogged[s] = 0

\* ----------------------------------------------------- extraction errors
\* The number of elements of the sequence q equal to x.
Count(q, x) == Cardinality({i \in 1..Len(q) : q[i] = x})

\* C21 as stated: for an article page whose date does not parse or whose
\* content fails to serialize, Visit reports the error and does not call
\* SaveArticle.
C21_ErrorPageNotSaved ==
    (out.done /\ out.article /\ (~arg.dateOk \/ ~arg.htmlOk))
        => /\ Count(out.steps, "errDate") + Count(out.steps, "errHtml") >= 1
           /\ Count(out.steps, "save") = 0

\* C22 as stated: SaveArticle is only ever called with a complete record, so
\* no row of the articles table holds a date that did not parse.
C22_SavedRecordsComplete == \A r \in db : r.dateOk

\* C23: a link of the content whose URL does not resolve costs one reported
\* error and no more: every other a and img element is still rewritten and
\* Visit goes on to the rest of the page, up to its call of SaveArticle.
C23_BadLinkNotFatal ==
    (out.done /\ out.article)
        => /\ Count(out.steps, "errRel") = arg.badLinks
           /\ out.rewritten = arg.goodLinks
           /\ Count(out.steps, "save") = 1
           /\ out.steps[Len(out.steps)] = "save"

C23_Witness ==
    /\ out.done
    /\ out.article
    /\ arg.badLinks = MaxBadLinks
    /\ arg.goodLinks = MaxGoodLinks

\* ------------------------------------------------------------ persistence
\* C24: SaveArticle returns an error for a URL whose scheme is neither http
\* nor https, and the articles table is then what it was.
C24_SchemeRejected ==
    (out.done /\ arg.scheme # "http" /\ arg.scheme # "https") => out.err /\ db = db0

C24_Witness ==
    /\ out.done
    /\ arg.scheme = "ftp"
    /\ out.err
    /\ db0 = {}

\* C25: when SaveArticle fails for a page (its URL is already a key of the
\* articles table), the table is unchanged, the error is reported for that
\* page and the crawl goes on: the engine is not stopped.
C25_SaveFailureNotFatal ==
    [][\A s \in Sites :
        (saveLog'[s] # saveLog[s] /\ \E r \in db : r.url = <<s, cur[s].url>>)
            => /\ db' = db
               /\ todo'[s] = <<"errSave">>
               /\ engPc'[s] = "visit"
               /\ engErr'[s] = engErr[s]]_vars

C25_Witness ==
    \E s \in Sites :
        /\ \E r \in db0 : r.url = <<s, StartPoint>>
        /\ InSeq(StartPoint, saveLog[s])
        /\ nLogged[s] = 1
        /\ Len(fetchLog[s]) >= 2
        /\ db = db0

\* C26: a visited article gives exactly one SaveArticle call for its URL in
\* the run, a visited page that is not an article gives none, and no URL is
\* passed to SaveArticle twice.
C26_OneSavePerArticle ==
    \A s \in Sites :
        /\ NoDup(saveLog[s])
        /\ (engPc[s] = "visit" /\ cur[s].visited /\ todo[s] = <<>>)
               => Count(saveLog[s], cur[s].url) = (IF cur[s].article THEN 1 ELSE 0)

C26_Witness ==
    \E s \in Sites :
        /\ EngineEnded(s)
        /\ Len(fetchLog[s]) = NPages
        /\ visits[s] = NPages
        /\ Len(saveLog[s]) = NPages - 1

\* ---------------------------------------------------------- configuration
\* A configuration file with an error Load detects: a start_point url.Parse
\* rejects, or a database driver that is not supported.
ConfigError(f) ==
    \/ \E i \in 1..Len(f.startPoints) : UrlParse(f.startPoints[i]).err
    \/ f.driver \notin {"postgres", "sqlite3"}

C28_StartPointHttp ==
    (out.done /\ ~out.err)
        => \A i \in 1..Len(arg.startPoints) :
               /\ ~UrlParse(arg.startPoints[i]).err
               /\ UrlParse(arg.startPoints[i]).scheme \in {"http", "https"}

\* ------------------------------------------------------------ date layouts
\* The layout holds no {PATTERN} of the README's list.
NoPlaceholder(layout) ==
    ~\E n \in DOMAIN LayoutTokens : \E i \in 1..(Len(layout) - Len(Braced(n)) + 1) :
        SubSeq(layout, i, i + Len(Braced(n)) - 1) = Braced(n)

\* C29: for each of the thirteen placeholders of the README's list, a layout
\* made of that placeholder alone is turned into exactly the value the list
\* gives for it.
C29_SinglePlaceholder ==
    \A n \in DOMAIN LayoutTokens :
        (out.done /\ arg = Braced(n)) => out.layout = Chars[LayoutTokens[n]]

C29_Witness ==
    out.done /\ arg = Braced("ZONE_OFFSET") /\ out.layout = <<"-", "0", "7", "0", "0">>

\* C30: a layout with no recognized placeholder is returned as it was given,
\* and replaceLayoutPatterns always returns: there is no input it fails on.
C30_NoPlaceholderUnchanged ==
    /\ []((out.done /\ NoPlaceholder(arg)) => out.layout = arg)
    /\ <>out.done

C30_Witness ==
    /\ out.done
    /\ NoPlaceholder(arg)
    /\ CanOccur(arg) # {}
    /\ \E i \in 1..Len(arg) : arg[i] = "{"
    /\ out.layout = arg

\* The layout after every pattern of the names has been replaced, the
\* patterns taken in one order.
RECURSIVE ReplacedInOrder(_, _)
ReplacedInOrder(layout, names) ==
    IF names = {} THEN layout
    ELSE LET p == CHOOSE n \in names : TRUE IN
         ReplacedInOrder(StringsReplace(layout, Braced(p), Chars[patterns[p]]), names \ {p})

\* C31: whatever order the range over the patterns map takes them in, the
\* layout replaceLayoutPatterns leaves is the one a single order gives.
C31_OrderIndependent ==
    out.done => out.layout = ReplacedInOrder(arg, DOMAIN patterns)

\* {MONTH_{DAY_NUM}NUM}: a pattern inside the brackets of what is not one
\* either before or after the replacement.
C31_Witness ==
    /\ out.done
    /\ arg = <<"{", "M", "O", "N", "T", "H", "_">> \o Braced("DAY_NUM") \o <<"N", "U", "M", "}">>
    /\ {"DAY_NUM", "MONTH_NUM"} \subseteq CanOccur(arg)
    /\ out.layout = <<"{", "M", "O", "N", "T", "H", "_", "2", "N", "U", "M", "}">>

\* The README's placeholders that begin the string.
PlaceholdersAt(str) ==
    {n \in DOMAIN LayoutTokens :
        Len(str) >= Len(Braced(n)) /\ SubSeq(str, 1, Len(Braced(n))) = Braced(n)}

\* The string read once from left to right, each placeholder of the README's
\* list giving its value and every other character itself.
RECURSIVE Substituted(_)
Substituted(str) ==
    IF str = <<>> THEN <<>>
    ELSE IF PlaceholdersAt(str) # {}
         THEN LET n == CHOOSE x \in PlaceholdersAt(str) : TRUE IN
              Chars[LayoutTokens[n]] \o Substituted(SubSeq(str, Len(Braced(n)) + 1, Len(str)))
         ELSE <<Head(str)>> \o Substituted(Tail(str))

\* C32: in the layout replaceLayoutPatterns leaves, every occurrence of every
\* placeholder has become its value and the other text is where it was; the
\* README's "{DAY_NUM} {MONTH_LONG} {YEAR_LONG}" becomes "2 January 2006" and
\* its "{MONTH_NUM}/{DAY_NUM}/{YEAR_LONG}" becomes "1/2/2006".
C32_MixedLayout ==
    out.done =>
        /\ out.layout = Substituted(arg)
        /\ arg = ExampleDayMonthYear =>
            out.layout = <<"2", " ", "J", "a", "n", "u", "a", "r", "y", " ", "2", "0", "0", "6">>
        /\ arg = ExampleSlashes =>
            out.layout = <<"1", "/", "2", "/", "2", "0", "0", "6">>

C32_Witness ==
    /\ out.done
    /\ arg = ExampleWithTime
    /\ out.layout = <<"M", "o", "n", "d", "a", "y", " ", "2", " ",
                      "J", "a", "n", "u", "a", "r", "y", " ", "a", "t", " ",
                      "1", "5", ":", "0", "4">>

\* C37: the layout replaceLayoutPatterns leaves holds no placeholder of the
\* README's list, and replacing the patterns in it again changes nothing.
C37_Idempotent ==
    out.done =>
        /\ NoPlaceholder(out.layout)
        /\ ReplacedInOrder(out.layout, DOMAIN patterns) = out.layout

\* {{DAY_NUM}}: the value is left between curly brackets.
C37_Witness ==
    /\ out.done
    /\ arg = <<"{">> \o Braced("DAY_NUM") \o <<"}">>
    /\ out.layout = <<"{", "2", "}">>

\* ------------------------------------------------------------- the channels
\* C33 as stated: once Run() has returned, the launchCrawler goroutine it
\* started comes to its end.
C33_LaunchCrawlerTerminates ==
    \A s \in Sites : RunReturned(s) ~> (lcPc[s] = "done")

\* Extender.Error, called for the crawl of s, is at its send on errChan.
ErrorSendPending(s) == todo[s] # <<>> /\ Head(todo[s]) \in ErrSteps

\* C34: while a send of Extender.Error on errChan is pending Run() is at its
\* select, ready to receive it; when Run() has returned the engine has ended
\* with no send pending, and once a stop reason has been delivered no error
\* is received any more.
C34_ErrorsReceivedBeforeReturn ==
    /\ [](\A s \in Sites :
            /\ ErrorSendPending(s) => gPc[s] = "select" /\ engPc[s] = "visit"
            /\ RunReturned(s) => EngineEnded(s) /\ todo[s] = <<>>)
    /\ [][\A s \in Sites : endCount[s] > 0 => nLogged'[s] = nLogged[s]]_vars

C34_Witness ==
    \E s \in Sites :
        /\ RunReturned(s)
        /\ nLogged[s] >= 2
        /\ ~failLogged[s]
        /\ fetches[s] >= 2

\* C35: when the engine has failed, launchCrawler comes to its sends on
\* endChan, and Run() to a stop reason and to its return, only after Run()
\* has received and logged the "Crawling failed" error.
C35_FailureLoggedFirst ==
    \A s \in Sites :
        (/\ Fatal(s)
         /\ \/ lcPc[s] \in {"sendEnd", "sendLast", "done"}
            \/ endCount[s] > 0
            \/ stopReason[s] # NoReason
            \/ RunReturned(s))
            => failLogged[s] /\ nLogged[s] >= 1

C35_Witness ==
    \E s \in Sites :
        /\ Fatal(s)
        /\ gPc[s] = "done"
        /\ failLogged[s]
        /\ stopReason[s] = CrawlingFailed(ErrInterrupted).msg

\* ------------------------------------------------------------- the author
\* The text of a node: of a text node its text, of an element the text of
\* its first child, of no node the empty text.
TextOf(node) == IF node.type = "text" THEN node.data ELSE <<>>
TextOfFirst(node) ==
    IF node.type = "text" THEN node.data
    ELSE IF node.type = "element" THEN TextOf(node.child)
    ELSE <<>>

\* C36 as stated: with the author selector set and matched, the author is
\* the trimmed text of the anchor when the first child of the matched element
\* is an anchor element, and the trimmed text of that first child otherwise;
\* with the selector absent or matching nothing the author is nil.
C36_Author ==
    out.done =>
        /\ ~out.panic
        /\ out.author =
            IF ~arg.selector \/ arg.matches = 0 THEN NoAuthor
            ELSE IF arg.first.type = "element" /\ arg.first.data = <<"a">>
                 THEN Author(Trim(TextOf(arg.first.child)))
                 ELSE Author(Trim(TextOfFirst(arg.first)))

====
